---- MODULE Spec2Model ----
(***************************************************************************)
(* A model of split_mp3.py: the timestamp parser (Track.time_to_ms), the   *)
(* tracklist model (Track, Album), the splitter (split_mp3), the tagger    *)
(* (edit_meta, edit_album_meta) and the entry point that drives them.      *)
(*                                                                         *)
(* A Python str is a sequence of one-character strings.  A call that may   *)
(* raise returns a record whose ok field tells a value from an exception.  *)
(* Python's None is the empty sequence <<>> and a value v is <<v>>.        *)
(***************************************************************************)
EXTENDS Integers, Sequences, FiniteSets, TLC

\* ------------------------------------------------------------------ bounds

\* Longest timestamp string enumerated for time_to_ms.
MaxLen == 5

\* Longest tracklist file, in lines.
MaxTracks == 3

\* ------------------------------------------------------- Python primitives

Min(a, b) == IF a < b THEN a ELSE b

Max(a, b) == IF a > b THEN a ELSE b

None == <<>>

Some(v) == <<v>>

Digits == {"0", "1", "2", "3", "4", "5", "6", "7", "8", "9"}

DigitVal(c) ==
    CASE c = "0" -> 0 [] c = "1" -> 1 [] c = "2" -> 2 [] c = "3" -> 3
      [] c = "4" -> 4 [] c = "5" -> 5 [] c = "6" -> 6 [] c = "7" -> 7
      [] c = "8" -> 8 [] c = "9" -> 9

DigitChar(d) ==
    CASE d = 0 -> "0" [] d = 1 -> "1" [] d = 2 -> "2" [] d = 3 -> "3"
      [] d = 4 -> "4" [] d = 5 -> "5" [] d = 6 -> "6" [] d = 7 -> "7"
      [] d = 8 -> "8" [] d = 9 -> "9"

\* s[lo:hi] for 0-based bounds already brought into 0..len(s).
Sub(s, lo, hi) == IF lo >= hi THEN <<>> ELSE SubSeq(s, lo + 1, hi)

\* Python's reading of a slice bound: a negative bound counts from the end,
\* and every bound is clamped into 0..len(s).
PyBound(s, i) == IF i < 0 THEN Max(Len(s) + i, 0) ELSE Min(i, Len(s))

\* s[:hi]
PySliceTo(s, hi) == Sub(s, 0, PyBound(s, hi))

\* s[lo:]
PySliceFrom(s, lo) == Sub(s, PyBound(s, lo), Len(s))

\* s.find(c) for a one-character c: the 0-based index of the first
\* occurrence, -1 when there is none.
PyFind(s, c) ==
    IF \E k \in 1..Len(s) : s[k] = c
    THEN (CHOOSE k \in 1..Len(s) : s[k] = c /\ \A j \in 1..(k - 1) : s[j] # c) - 1
    ELSE -1

\* s.count(c) for a one-character c.
PyCount(s, c) == Cardinality({k \in 1..Len(s) : s[k] = c})

\* s.split(c) for a one-character c: the pieces between the occurrences.
RECURSIVE PySplit(_, _)
PySplit(s, c) ==
    LET ind == PyFind(s, c)
    IN  IF ind = -1 THEN <<s>>
        ELSE <<Sub(s, 0, ind)>> \o PySplit(Sub(s, ind + 1, Len(s)), c)

\* The whitespace characters that have no escape in a string: vertical tab
\* (code 11), the file, group, record and unit separators (28..31), next
\* line (133) and the no-break space (160).
VT == ""

FS == ""

GS == ""

RS == ""

US == ""

NEL == ""

NBSP == " "

\* The characters str.strip() drops (those str.isspace holds of), up to code
\* 255.  (The Unicode spaces above 255, U+1680, U+2000..U+200A and so
\* on, are whitespace to Python as well.)
Whitespace == {" ", "\t", "\n", VT, "\f", "\r", FS, GS, RS, US, NEL, NBSP}

\* The whitespace int() drops around a literal: that of the C locale and,
\* outside ASCII, what str.isspace holds of.  The separators 28..31 are not
\* among it: int(FS + "5") raises ValueError.
IntWhitespace == {" ", "\t", "\n", VT, "\f", "\r", NEL, NBSP}

\* s with the leading and trailing characters of ws removed.
RECURSIVE StripOf(_, _)
StripOf(s, ws) ==
    IF s = <<>> THEN s
    ELSE IF Head(s) \in ws THEN StripOf(Tail(s), ws)
    ELSE IF s[Len(s)] \in ws THEN StripOf(Sub(s, 0, Len(s) - 1), ws)
    ELSE s

\* s.strip(): leading and trailing whitespace removed.
PyStrip(s) == StripOf(s, Whitespace)

\* The value of a run of decimal digits; the underscores int() allows
\* between digits count for nothing.
RECURSIVE DecVal(_)
DecVal(s) ==
    IF s = <<>> THEN 0
    ELSE IF s[Len(s)] = "_" THEN DecVal(Sub(s, 0, Len(s) - 1))
    ELSE 10 * DecVal(Sub(s, 0, Len(s) - 1)) + DigitVal(s[Len(s)])

\* The digit part of an int() literal: decimal digits, with single
\* underscores allowed between two digits.  (Up to code 255 the decimal
\* digits are the ASCII ones; Python also takes those of other scripts, all
\* above 255.)
IsDigits(s) ==
    /\ s # <<>>
    /\ \A k \in 1..Len(s) : s[k] \in Digits \cup {"_"}
    /\ s[1] # "_"
    /\ s[Len(s)] # "_"
    /\ \A k \in 1..(Len(s) - 1) : ~(s[k] = "_" /\ s[k + 1] = "_")

\* int(s): whitespace around the literal is dropped, one sign is allowed, the
\* rest must be digits; anything else raises ValueError.
PyInt(s) ==
    LET t    == StripOf(s, IntWhitespace)
        neg  == t # <<>> /\ Head(t) = "-"
        sign == t # <<>> /\ Head(t) \in {"-", "+"}
        body == IF sign THEN Tail(t) ELSE t
    IN  IF IsDigits(body)
        THEN [ok |-> TRUE, val |-> IF neg THEN 0 - DecVal(body) ELSE DecVal(body)]
        ELSE [ok |-> FALSE, val |-> 0]

\* str(n) for an integer n.
RECURSIVE DecStr(_)
DecStr(n) ==
    IF n < 0 THEN <<"-">> \o DecStr(0 - n)
    ELSE IF n < 10 THEN <<DigitChar(n)>>
    ELSE DecStr(n \div 10) \o <<DigitChar(n % 10)>>

\* --------------------------------------------------------- Track.time_to_ms

\* What time_to_ms gives: a number of milliseconds, or a ValueError.  The
\* error raised for a bad separator count carries the separator, the string
\* and the count in its message; the one int() raises carries neither.
TimeValue(ms) ==
    [ok |-> TRUE, ms |-> ms, err |-> "", sep |-> "", str |-> <<>>, count |-> 0]

SepCountError(sep, time_string, sep_count) ==
    [ok |-> FALSE, ms |-> 0, err |-> "ValueError: number of sep in timestamp is invalid",
     sep |-> sep, str |-> time_string, count |-> sep_count]

IntLiteralError ==
    [ok |-> FALSE, ms |-> 0, err |-> "ValueError: invalid literal for int()",
     sep |-> "", str |-> <<>>, count |-> 0]

\* time_to_ms with an hour counted as 60 seconds.
time_to_ms_hours60(time_string, sep) ==
    LET l         == PySplit(time_string, sep)
        sep_count == PyCount(time_string, sep)
    IN  IF sep_count = 1
        THEN LET mins == PyInt(l[1])
                 secs == PyInt(l[2])
             IN  IF mins.ok /\ secs.ok
                 THEN TimeValue((secs.val + mins.val * 60) * 1000)
                 ELSE IntLiteralError
        ELSE IF sep_count = 2
        THEN LET hours == PyInt(l[1])
                 mins  == PyInt(l[2])
                 secs  == PyInt(l[3])
             IN  IF hours.ok /\ mins.ok /\ secs.ok
                 THEN TimeValue((secs.val + mins.val * 60 + hours.val * 60) * 1000)
                 ELSE IntLiteralError
        ELSE SepCountError(sep, time_string, sep_count)

\* time_to_ms reading the first three pieces whenever there are at least
\* two separators.
time_to_ms_lenient(time_string, sep) ==
    LET l         == PySplit(time_string, sep)
        sep_count == PyCount(time_string, sep)
    IN  IF sep_count = 1
        THEN LET mins == PyInt(l[1])
                 secs == PyInt(l[2])
             IN  IF mins.ok /\ secs.ok
                 THEN TimeValue((secs.val + mins.val * 60) * 1000)
                 ELSE IntLiteralError
        ELSE IF sep_count >= 2
        THEN LET hours == PyInt(l[1])
                 mins  == PyInt(l[2])
                 secs  == PyInt(l[3])
             IN  IF hours.ok /\ mins.ok /\ secs.ok
                 THEN TimeValue((secs.val + mins.val * 60 + hours.val * 60 * 60) * 1000)
                 ELSE IntLiteralError
        ELSE SepCountError(sep, time_string, sep_count)

time_to_ms(time_string, sep) ==
    LET l         == PySplit(time_string, sep)
        sep_count == PyCount(time_string, sep)
    IN  IF sep_count = 1
        THEN LET mins == PyInt(l[1])
                 secs == PyInt(l[2])
             IN  IF mins.ok /\ secs.ok
                 THEN TimeValue((secs.val + mins.val * 60 + 0 * 60 * 60) * 1000)
                 ELSE IntLiteralError
        ELSE IF sep_count = 2
        THEN LET hours == PyInt(l[1])
                 mins  == PyInt(l[2])
                 secs  == PyInt(l[3])
             IN  IF hours.ok /\ mins.ok /\ secs.ok
                 THEN TimeValue((secs.val + mins.val * 60 + hours.val * 60 * 60) * 1000)
                 ELSE IntLiteralError
        ELSE SepCountError(sep, time_string, sep_count)

\* ------------------------------------------------------------------- Track

\* Track.__init__: the line is cut at the first sep2; find's -1 (no sep2 in
\* the line) is used as it comes, so data[:ind] is then the line without its
\* last character and data[ind+1:] the whole line.
TrackInit(data, num, sep1, sep2) ==
    LET ind   == PyFind(data, sep2)
        t1    == PySliceTo(data, ind)
        t2    == PySliceFrom(data, ind + 1)
        start == time_to_ms(t1, sep1)
    IN  [ok    |-> start.ok,
         err   |-> start.err,
         track |-> [num |-> num, title |-> t2, start_time |-> start.ms,
                    end_time |-> None]]

\* Track.__repr__
TrackRepr(track) == DecStr(track.num) \o <<".", " ">> \o track.title

\* ------------------------------------------------------------------- Album

\* add_end_times copying each track's own start time.
add_end_times_own(tracks) ==
    [i \in 1..Len(tracks) |->
        IF i <= Len(tracks) - 1
        THEN [tracks[i] EXCEPT !.end_time = Some(tracks[i].start_time)]
        ELSE tracks[i]]

\* Album.add_end_times: every track but the last takes the start time of
\* the track after it.
add_end_times(tracks) ==
    [i \in 1..Len(tracks) |->
        IF i <= Len(tracks) - 1
        THEN [tracks[i] EXCEPT !.end_time = Some(tracks[i + 1].start_time)]
        ELSE tracks[i]]

\* The loop of Album.__init__: one Track per line of the file, numbered from
\* 1 in file order, built from the stripped line.
ReadTracks(lines, sep1, sep2) ==
    [i \in 1..Len(lines) |-> TrackInit(PyStrip(lines[i]), i, sep1, sep2)]

\* Album.__init__: the first line whose Track raises ends the construction
\* with that error; otherwise the tracks get their end times.
AlbumInit(lines, sep1, sep2) ==
    LET built == ReadTracks(lines, sep1, sep2)
        bad   == {i \in 1..Len(lines) : ~built[i].ok}
    IN  IF bad # {}
        THEN [ok |-> FALSE,
              err |-> built[CHOOSE i \in bad : \A j \in bad : i <= j].err,
              tracks |-> <<>>]
        ELSE [ok |-> TRUE, err |-> "",
              tracks |-> add_end_times([i \in 1..Len(lines) |-> built[i].track])]

\* ---------------------------------------------------------------- the run

\* The configuration the entry point reads (get_info), fixed for the run.
OutputPath == <<"o", "u", "t">>

AlbumName == "Album"

Artist == "Artist"

CoverPath == "cover.png"

Mp3Ext == <<".", "m", "p", "3">>

\* The tracklist lines a file is made of, each with its line feed as the
\* loop over the file sees it: well-formed ones (minutes and seconds; hours,
\* a title with a blank and whitespace around the line), a blank line, a
\* line with no blank and a line whose timestamp has no colon.
Lines ==
    { <<"0", "0", ":", "0", "0", " ", "A", "\n">>,
      <<"0", "0", ":", "3", "0", " ", "B", "\n">>,
      <<"0", "1", ":", "1", "5", " ", "C", "\n">>,
      <<NBSP, "1", ":", "0", "0", ":", "0", "0", " ", "D", " ", "E", VT, "\n">>,
      <<"\n">>,
      <<"0", "3", ":", "5", "5", "\n">>,
      <<"0", "0", "3", "0", " ", "A", "\n">> }

TrackLists == UNION {[1..n -> Lines] : n \in 0..MaxTracks}

\* The length of the decoded source audio, in milliseconds.
Durations == {60000, 90000}

\* The operating systems the script may run on, by os.name.
Platforms == {"nt", "posix"}

\* os.sep, and the characters the platform's os.path reads as separators.
OsSep(platform) == IF platform = "nt" THEN "\\" ELSE "/"

PathSeps(platform) == IF platform = "nt" THEN {"\\", "/"} ELSE {"/"}

\* The letters up to code 255 that str.lower() changes, and what it makes
\* of each.
UpperLetters ==
    <<"A", "B", "C", "D", "E", "F", "G", "H", "I", "J", "K", "L", "M",
      "N", "O", "P", "Q", "R", "S", "T", "U", "V", "W", "X", "Y", "Z",
      "À", "Á", "Â", "Ã", "Ä", "Å", "Æ", "Ç", "È", "É", "Ê", "Ë", "Ì",
      "Í", "Î", "Ï", "Ð", "Ñ", "Ò", "Ó", "Ô", "Õ", "Ö", "Ø", "Ù", "Ú",
      "Û", "Ü", "Ý", "Þ">>

LowerLetters ==
    <<"a", "b", "c", "d", "e", "f", "g", "h", "i", "j", "k", "l", "m",
      "n", "o", "p", "q", "r", "s", "t", "u", "v", "w", "x", "y", "z",
      "à", "á", "â", "ã", "ä", "å", "æ", "ç", "è", "é", "ê", "ë", "ì",
      "í", "î", "ï", "ð", "ñ", "ò", "ó", "ô", "õ", "ö", "ø", "ù", "ú",
      "û", "ü", "ý", "þ">>

\* s.lower()
PyLower(s) ==
    [k \in 1..Len(s) |->
        IF \E n \in 1..Len(UpperLetters) : UpperLetters[n] = s[k]
        THEN LowerLetters[CHOOSE n \in 1..Len(UpperLetters) : UpperLetters[n] = s[k]]
        ELSE s[k]]

\* s.find(c, start) for a one-character c and 0 <= start.
PyFindFrom(s, c, start) ==
    IF start > Len(s) THEN -1
    ELSE LET ind == PyFind(Sub(s, start, Len(s)), c)
         IN  IF ind = -1 THEN -1 ELSE start + ind

\* ntpath.splitdrive(p): the drive of p (a letter and a colon, or the host
\* and share of a UNC path, or a device) and the rest.
NtSplitDrive(p) ==
    LET normp == [k \in 1..Len(p) |-> IF p[k] = "/" THEN "\\" ELSE p[k]]
        unc   == /\ Len(normp) >= 8
                 /\ Sub(normp, 0, 4) = <<"\\", "\\", "?", "\\">>
                 /\ normp[5] \in {"U", "u"}
                 /\ normp[6] \in {"N", "n"}
                 /\ normp[7] \in {"C", "c"}
                 /\ normp[8] = "\\"
        start  == IF unc THEN 8 ELSE 2
        index  == PyFindFrom(normp, "\\", start)
        index2 == PyFindFrom(normp, "\\", index + 1)
    IN  IF Len(p) < 2 THEN <<<<>>, p>>
        ELSE IF Sub(normp, 0, 2) = <<"\\", "\\">>
        THEN IF index = -1 \/ index2 = -1 THEN <<p, <<>>>>
             ELSE <<Sub(p, 0, index2), Sub(p, index2, Len(p))>>
        ELSE IF normp[2] = ":" THEN <<Sub(p, 0, 2), Sub(p, 2, Len(p))>>
        ELSE <<<<>>, p>>

\* The end of ntpath.join: a separator goes between a UNC drive and a
\* relative path.
NtJoinResult(result_drive, result_path) ==
    IF /\ result_path # <<>>
       /\ result_path[1] \notin {"\\", "/"}
       /\ result_drive # <<>>
       /\ result_drive[Len(result_drive)] # ":"
    THEN result_drive \o <<"\\">> \o result_path
    ELSE result_drive \o result_path

\* ntpath.join(path, p)
NtPathJoin(path, p) ==
    LET result_drive == NtSplitDrive(path)[1]
        result_path  == NtSplitDrive(path)[2]
        p_drive      == NtSplitDrive(p)[1]
        p_path       == NtSplitDrive(p)[2]
    IN  IF p_path # <<>> /\ p_path[1] \in {"\\", "/"}
        THEN NtJoinResult(IF p_drive # <<>> \/ result_drive = <<>>
                          THEN p_drive ELSE result_drive, p_path)
        ELSE IF /\ p_drive # <<>>
                /\ p_drive # result_drive
                /\ PyLower(p_drive) # PyLower(result_drive)
        THEN NtJoinResult(p_drive, p_path)
        ELSE NtJoinResult(
                 IF p_drive # <<>> /\ p_drive # result_drive
                 THEN p_drive ELSE result_drive,
                 (IF result_path # <<>>
                     /\ result_path[Len(result_path)] \notin {"\\", "/"}
                  THEN result_path \o <<"\\">> ELSE result_path) \o p_path)

\* posixpath.join(a, b)
PosixPathJoin(a, b) ==
    IF b # <<>> /\ b[1] = "/" THEN b
    ELSE IF a = <<>> \/ a[Len(a)] = "/" THEN a \o b
    ELSE a \o <<"/">> \o b

\* os.path.join(path, file)
OsPathJoin(platform, path, file) ==
    IF platform = "nt" THEN NtPathJoin(path, file) ELSE PosixPathJoin(path, file)

\* What the output directory may hold before the run, each file by its
\* names from the output directory down: nothing, a text file, a track of
\* an earlier run, a cover image, or a subdirectory with an earlier track.
OldListings ==
    { {},
      {<<<<"0", ".", "t", "x", "t">>>>},
      {<<<<"1", "0", ".", " ", "Z", ".", "m", "p", "3">>>>},
      {<<<<"c", "o", "v", "e", "r", ".", "j", "p", "g">>>>},
      {<<<<"s", "u", "b">>, <<"1", ".", " ", "o", "l", "d", ".", "m", "p", "3">>>>} }

\* The path of such a file.
RECURSIVE OldPath(_, _, _)
OldPath(platform, dir, names) ==
    IF names = <<>> THEN dir
    ELSE OldPath(platform, OsPathJoin(platform, dir, Head(names)), Tail(names))

NoTags ==
    [id3 |-> FALSE, TIT2 |-> <<>>, TPE1 |-> "", TALB |-> "", TRCK |-> <<>>,
     APIC |-> {}, other |-> {}]

OldTags ==
    [id3 |-> TRUE, TIT2 |-> <<"Z">>, TPE1 |-> "Old", TALB |-> "Old", TRCK |-> <<"7">>,
     APIC |-> {}, other |-> {"TCON"}]

SilentAudio == [from |-> 0, to |-> 0]

IsMp3(file) == PySliceFrom(file, 0 - 3) = <<"m", "p", "3">>

OldFile(name) ==
    [audio |-> SilentAudio, tags |-> IF IsMp3(name) THEN OldTags ELSE NoTags]

\* --------------------------------------------------------------- split_mp3

\* A slice that takes the millisecond at its end bound too.
Slice_inclusive(len, start, end) ==
    [from |-> Min(start, len), to |-> Min(end + 1, len)]

\* source[start:end] of pydub, as the interval of the source it covers:
\* both bounds are clamped to the length of the source.
Slice(len, start, end) == [from |-> Min(start, len), to |-> Min(end, len)]

\* len() of a slice, in milliseconds: a slice whose end is not after its
\* start is empty.
SliceLen(audio) == Max(audio.to - audio.from, 0)

\* The path split_mp3 exports a track to: the f-string joins the output
\* path and the name with a backslash on every platform.
ExportPath(output_path, track) ==
    output_path \o <<"\\">> \o TrackRepr(track) \o Mp3Ext

\* ------------------------------------------------------------ get_track_num

\* get_track_num: the integer before the first '.' of the file name; int()
\* raises ValueError when that prefix is no integer literal.
get_track_num(song_name) ==
    LET ind == PyFind(song_name, ".")
    IN  PyInt(PySliceTo(song_name, ind))

\* files.sort(key=get_track_num): the orders the sort may leave a listing
\* in, names with equal keys staying in the order the listing gave them,
\* which the file system chooses.
RECURSIVE SortedByTrackNum(_)
SortedByTrackNum(files) ==
    IF files = {} THEN {<<>>}
    ELSE LET least == {f \in files : \A g \in files :
                          get_track_num(f).val <= get_track_num(g).val}
         IN  UNION {{<<f>> \o rest : rest \in SortedByTrackNum(files \ {f})} : f \in least}

\* ---------------------------------------------------------------- edit_meta

\* edit_meta, lines 145-155: title, artist, album and track number are set,
\* the other frames of the file are kept, and the file is saved.
edit_meta_text(file, title, artist, album_name, track_num) ==
    [file EXCEPT !.tags = [id3   |-> TRUE,
                           TIT2  |-> title,
                           TPE1  |-> artist,
                           TALB  |-> album_name,
                           TRCK  |-> DecStr(track_num),
                           APIC  |-> file.tags.APIC,
                           other |-> file.tags.other]]

\* edit_meta, lines 157-169: the cover, when there is one, is added as an
\* APIC frame and the file is saved a second time.
edit_meta_cover(file, cover) ==
    IF cover # None
    THEN [file EXCEPT !.tags.APIC = file.tags.APIC \cup {"Cover"}]
    ELSE file

\* edit_meta
edit_meta(file, title, artist, album_name, track_num, cover) ==
    edit_meta_cover(edit_meta_text(file, title, artist, album_name, track_num), cover)

\* -------------------------------------------------------------------- state

VARIABLES
    pc,          \* where the run is: main, album, split, split_done, walk, tag,
                 \* done, error
    platform,    \* the operating system the script runs on
    tracklist,   \* the lines of the tracklist file
    source_len,  \* the length of the source audio in milliseconds
    album,       \* None, or the Album the entry point built
    pos,         \* the position of the running loop in its sequence
    i,           \* split_mp3's progress counter
    count,       \* edit_album_meta's track counter
    walk,        \* the directories os.walk has still to yield, next one first
    path,        \* the directory os.walk yielded last
    files,       \* edit_album_meta's sorted listing of that directory
    disk,        \* the files of the file system: path -> audio and tags
    stdout,      \* the progress lines printed so far
    error,       \* the exception that ended the run, "" when there is none
    time_string, \* time_to_ms on its own: the string given
    sep,         \* time_to_ms on its own: the separator given
    result       \* time_to_ms on its own: None, or what the call gave

vars == <<pc, platform, tracklist, source_len, album, pos, i, count, walk, path,
          files, disk, stdout, error, time_string, sep, result>>

timeVars == <<time_string, sep, result>>

\* What no step of the run assigns.
inputVars == <<platform, tracklist, source_len>>

\* The Album of the run.
A == album[1]

\* What is below directory dir: the rest of every path that starts with dir
\* and a separator.
Below(dir) ==
    {PySliceFrom(p, Len(dir) + 1) : p \in
        {q \in DOMAIN disk : /\ Len(q) > Len(dir) + 1
                             /\ PySliceTo(q, Len(dir)) = dir
                             /\ q[Len(dir) + 1] \in PathSeps(platform)}}

HasSep(name) == \E k \in 1..Len(name) : name[k] \in PathSeps(platform)

FirstName(rest) ==
    PySliceTo(rest, (CHOOSE k \in 1..Len(rest) :
                        /\ rest[k] \in PathSeps(platform)
                        /\ \A j \in 1..(k - 1) : rest[j] \notin PathSeps(platform)) - 1)

\* os.walk's files of a directory: the names of the files directly in it.
ListDir(dir) == {rest \in Below(dir) : ~HasSep(rest)}

\* os.walk's dirs of a directory: the names of its subdirectories.
SubDirs(dir) == {FirstName(rest) : rest \in {r \in Below(dir) : HasSep(r)}}

\* The orders a listing may come in.
RECURSIVE Orders(_)
Orders(names) ==
    IF names = {} THEN {<<>>}
    ELSE UNION {{<<n>> \o rest : rest \in Orders(names \ {n})} : n \in names}

Printed(kind, text, n, overall) ==
    [kind |-> kind, text |-> text, n |-> n, overall |-> overall]

Init ==
    /\ pc = "main"
    /\ platform \in Platforms
    /\ tracklist \in TrackLists
    /\ source_len \in Durations
    /\ album = None
    /\ pos = 0
    /\ i = 0
    /\ count = 0
    /\ walk = <<>>
    /\ path = <<>>
    /\ files = <<>>
    /\ \E old \in OldListings :
          disk = [p \in {OldPath(platform, OutputPath, names) : names \in old} |->
                     OldFile(p)]
    /\ stdout = <<>>
    /\ error = ""
    /\ time_string = <<>>
    /\ sep = ":"
    /\ result = None

\* __main__, line 240: the Album is built from the tracklist file; an error
\* raised by a line ends the run.
CreateAlbum ==
    /\ pc = "main"
    /\ LET built == AlbumInit(tracklist, ":", " ")
       IN  IF built.ok
           THEN /\ album' = Some([audio_path |-> "source.mp3", name |-> AlbumName,
                                  artist |-> Artist, output_path |-> OutputPath,
                                  cover_path |-> Some(CoverPath),
                                  tracks |-> built.tracks])
                /\ pc' = "album"
                /\ error' = error
           ELSE /\ album' = album
                /\ pc' = "error"
                /\ error' = built.err
    /\ UNCHANGED <<inputVars, pos, i, count, walk, path, files, disk, stdout, timeVars>>

\* split_mp3, lines 109-116: the source is loaded and the header printed.
SplitBegin ==
    /\ pc = "album"
    /\ pc' = "split"
    /\ pos' = 1
    /\ i' = 1
    /\ stdout' = Append(stdout, Printed("SPLITTING ALBUM", <<>>, 0, Len(A.tracks)))
    /\ UNCHANGED <<inputVars, album, count, walk, path, files, disk, error, timeVars>>

\* split_mp3, line 109: the source audio cannot be read or decoded.
LoadFails ==
    /\ pc = "album"
    /\ pc' = "error"
    /\ error' = "IOError"
    /\ UNCHANGED <<inputVars, album, pos, i, count, walk, path, files, disk, stdout,
                   timeVars>>

\* split_mp3, one turn of the loop over album.tracks[:-1].
ExportTrack ==
    /\ pc = "split"
    /\ pos <= Len(A.tracks) - 1
    /\ LET track    == A.tracks[pos]
           cur_song == Slice(source_len, track.start_time, track.end_time[1])
       IN  /\ disk' = (ExportPath(A.output_path, track) :>
                          [audio |-> cur_song, tags |-> NoTags]) @@ disk
           /\ stdout' = Append(stdout, Printed("SPLIT", TrackRepr(track) \o Mp3Ext,
                                               i, Len(A.tracks)))
    /\ i' = i + 1
    /\ pos' = pos + 1
    /\ UNCHANGED <<pc, inputVars, album, count, walk, path, files, error, timeVars>>

\* split_mp3, lines 126-131: the last track runs to the end of the source.
ExportLast ==
    /\ pc = "split"
    /\ pos > Len(A.tracks) - 1
    /\ Len(A.tracks) >= 1
    /\ LET last      == A.tracks[Len(A.tracks)]
           last_song == Slice(source_len, last.start_time, source_len)
       IN  /\ disk' = (ExportPath(A.output_path, last) :>
                          [audio |-> last_song, tags |-> NoTags]) @@ disk
           /\ stdout' = Append(stdout, Printed("SPLIT", TrackRepr(last) \o Mp3Ext,
                                               i, Len(A.tracks)))
    /\ pc' = "split_done"
    /\ UNCHANGED <<inputVars, album, pos, i, count, walk, path, files, error, timeVars>>

\* split_mp3, line 126 on an album with no track: album.tracks[-1] raises.
NoLastTrack ==
    /\ pc = "split"
    /\ Len(A.tracks) = 0
    /\ pc' = "error"
    /\ error' = "IndexError"
    /\ UNCHANGED <<inputVars, album, pos, i, count, walk, path, files, disk, stdout,
                   timeVars>>

\* A failed export that is swallowed: the loop goes on to the next track.
ExportFailsSkips ==
    /\ pc = "split"
    /\ pos <= Len(A.tracks) - 1
    /\ error' = "ExportError"
    /\ pos' = pos + 1
    /\ i' = i + 1
    /\ UNCHANGED <<pc, inputVars, album, count, walk, path, files, disk, stdout,
                   timeVars>>

\* split_mp3: the slice or the export of the track at hand raises (the
\* encoder fails, the directory is missing): nothing catches it.
ExportFails ==
    /\ pc = "split"
    /\ Len(A.tracks) >= 1
    /\ pc' = "error"
    /\ error' = "ExportError"
    /\ UNCHANGED <<inputVars, album, pos, i, count, walk, path, files, disk, stdout,
                   timeVars>>

\* edit_album_meta called while split_mp3 is still exporting.
SplitRunning == pc \in {"split", "split_done"}

\* __main__, lines 243-244: edit_album_meta is called when split_mp3 has
\* returned.
SplitReturned == pc = "split_done"

\* edit_album_meta, lines 179-186: the header, the counter, and os.walk
\* started on the output directory.
TagBegin ==
    /\ SplitReturned
    /\ stdout' = Append(stdout, Printed("EDITING META DATA", <<>>, 0, Len(A.tracks)))
    /\ count' = 1
    /\ walk' = <<A.output_path>>
    /\ pc' = "walk"
    /\ UNCHANGED <<inputVars, album, pos, i, path, files, disk, error, timeVars>>

\* edit_album_meta, lines 186-188: os.walk yields the next directory, its
\* subdirectories to follow before the directories already waiting, and the
\* files of the directory are sorted; a name whose prefix is no integer
\* makes the sort raise.
TagDir ==
    /\ pc = "walk"
    /\ walk # <<>>
    /\ LET dir     == Head(walk)
           listing == ListDir(dir)
       IN  /\ path' = dir
           /\ \E dirs \in Orders(SubDirs(dir)) :
                 walk' = [k \in 1..Len(dirs) |-> OsPathJoin(platform, dir, dirs[k])]
                            \o Tail(walk)
           /\ IF \E f \in listing : ~get_track_num(f).ok
              THEN /\ pc' = "error"
                   /\ error' = "ValueError: invalid literal for int()"
                   /\ UNCHANGED <<files, pos>>
              ELSE /\ pc' = "tag"
                   /\ files' \in SortedByTrackNum(listing)
                   /\ pos' = 1
                   /\ error' = error
    /\ UNCHANGED <<inputVars, album, i, count, disk, stdout, timeVars>>

\* edit_album_meta, one turn of the loop over zip(files, album.tracks).
TagPair ==
    /\ pc = "tag"
    /\ pos <= Min(Len(files), Len(A.tracks))
    /\ LET file     == files[pos]
           track    == A.tracks[pos]
           cur_path == OsPathJoin(platform, path, file)
       IN  IF IsMp3(file)
           THEN /\ disk' = [disk EXCEPT ![cur_path] =
                               edit_meta(@, track.title, A.artist, A.name, count,
                                         A.cover_path)]
                /\ stdout' = Append(stdout, Printed("DONE", TrackRepr(track) \o Mp3Ext,
                                                    count, Len(A.tracks)))
                /\ count' = count + 1
           ELSE UNCHANGED <<disk, stdout, count>>
    /\ pos' = pos + 1
    /\ UNCHANGED <<pc, inputVars, album, i, walk, path, files, error, timeVars>>

\* edit_meta raises on the file at hand before its first save (lines
\* 145-155: the file cannot be opened or saved): the file is as it was.
TagFails ==
    /\ pc = "tag"
    /\ pos <= Min(Len(files), Len(A.tracks))
    /\ IsMp3(files[pos])
    /\ pc' = "error"
    /\ error' = "TagWriteError"
    /\ UNCHANGED <<inputVars, album, pos, i, count, walk, path, files, disk, stdout,
                   timeVars>>

\* edit_meta raises on the file at hand after its first save (lines 159-169:
\* the cover cannot be read, the second save fails): the file keeps the
\* title, artist, album and track number just written, without the cover.
TagCoverFails ==
    /\ pc = "tag"
    /\ pos <= Min(Len(files), Len(A.tracks))
    /\ IsMp3(files[pos])
    /\ A.cover_path # None
    /\ disk' = [disk EXCEPT ![OsPathJoin(platform, path, files[pos])] =
                   edit_meta_text(@, A.tracks[pos].title, A.artist, A.name, count)]
    /\ pc' = "error"
    /\ error' = "CoverError"
    /\ UNCHANGED <<inputVars, album, pos, i, count, walk, path, files, stdout,
                   timeVars>>

\* edit_album_meta, line 191: zip is exhausted for the directory at hand.
TagDirEnd ==
    /\ pc = "tag"
    /\ pos > Min(Len(files), Len(A.tracks))
    /\ pc' = "walk"
    /\ UNCHANGED <<inputVars, album, pos, i, count, walk, path, files, disk, stdout,
                   error, timeVars>>

\* edit_album_meta returns: os.walk has no directory left.
TagEnd ==
    /\ pc = "walk"
    /\ walk = <<>>
    /\ pc' = "done"
    /\ UNCHANGED <<inputVars, album, pos, i, count, walk, path, files, disk, stdout,
                   error, timeVars>>

Next ==
    \/ CreateAlbum
    \/ SplitBegin
    \/ LoadFails
    \/ ExportTrack
    \/ ExportLast
    \/ NoLastTrack
    \/ ExportFails
    \/ TagBegin
    \/ TagDir
    \/ TagPair
    \/ TagFails
    \/ TagCoverFails
    \/ TagDirEnd
    \/ TagEnd

Spec == Init /\ [][Next]_vars

\* ------------------------------------------------- time_to_ms on its own

\* The characters timestamps are drawn from: digits, the two separators
\* tried, the underscore, a tab and a letter.
TimeChars == {"0", "1", "5", ":", "-", "_", "\t", "x"}

Seps == {":", "-"}

\* The examples of the documentation, longer than MaxLen, and timestamps
\* with whitespace that int() drops (the first two) or does not (the last).
TimeExamples ==
    { <<"0", "3", ":", "5", "5">>,
      <<"0", "1", ":", "1", "0", ":", "0", "5">>,
      <<"0", "1", ":", "3", "3", ":", "2", "0">>,
      <<"1", ":", "2", ":", "3", ":", "4">>,
      <<NBSP, "1", ":", "0", "5", US>>,
      <<VT, "1", ":", "0", "5", "\n">>,
      <<FS, "1", ":", "0", "5">> }

TimeStrings == UNION {[1..n -> TimeChars] : n \in 0..MaxLen} \cup TimeExamples

InitTime ==
    /\ pc = "time_to_ms"
    /\ platform = "nt"
    /\ tracklist = <<>>
    /\ source_len = 0
    /\ album = None
    /\ pos = 0
    /\ i = 0
    /\ count = 0
    /\ walk = <<>>
    /\ path = <<>>
    /\ files = <<>>
    /\ disk = <<>>
    /\ stdout = <<>>
    /\ error = ""
    /\ time_string \in TimeStrings
    /\ sep \in Seps
    /\ result = None

CallTimeToMs ==
    /\ pc = "time_to_ms"
    /\ result = None
    /\ result' = Some(time_to_ms(time_string, sep))
    /\ UNCHANGED <<pc, inputVars, album, pos, i, count, walk, path, files, disk,
                   stdout, error, time_string, sep>>

NextTime == CallTimeToMs

SpecTime == InitTime /\ [][NextTime]_vars

\* ------------------------------------------------------------------ claims

\* The positions of the separator in the string given to time_to_ms.
SepAt == {k \in 1..Len(time_string) : time_string[k] = sep}

\* The pieces of the string around separators at positions a < b.
Before(a) == SubSeq(time_string, 1, a - 1)

Between(a, b) == SubSeq(time_string, a + 1, b - 1)

After(b) == SubSeq(time_string, b + 1, Len(time_string))

IsInteger(piece) == PyInt(piece).ok

\* C1: for a string with exactly one separator whose two pieces are
\* integers, time_to_ms gives minutes*60000 + seconds*1000; with exactly two
\* separators and three integer pieces it gives
\* hours*3600000 + minutes*60000 + seconds*1000.
C1_TimeToMsValue ==
    result # None =>
        /\ \A a \in SepAt :
              (SepAt = {a} /\ IsInteger(Before(a)) /\ IsInteger(After(a))) =>
                  /\ result[1].ok
                  /\ result[1].ms = PyInt(Before(a)).val * 60000
                                    + PyInt(After(a)).val * 1000
        /\ \A a, b \in SepAt :
              (a < b /\ SepAt = {a, b} /\ IsInteger(Before(a))
                 /\ IsInteger(Between(a, b)) /\ IsInteger(After(b))) =>
                  /\ result[1].ok
                  /\ result[1].ms = PyInt(Before(a)).val * 3600000
                                    + PyInt(Between(a, b)).val * 60000
                                    + PyInt(After(b)).val * 1000

\* "01:10:05" has given 4205000.
C1_Witness ==
    /\ time_string = <<"0", "1", ":", "1", "0", ":", "0", "5">>
    /\ sep = ":"
    /\ result # None
    /\ result[1].ok
    /\ result[1].ms = 4205000

\* C2: for a string in which the separator occurs 0 times or more than
\* twice, time_to_ms returns no value: it raises the ValueError whose message
\* carries the string and the separator count.
C2_TimeToMsFormatError ==
    (result # None /\ Cardinality(SepAt) \notin {1, 2}) =>
        /\ ~result[1].ok
        /\ result[1].err = "ValueError: number of sep in timestamp is invalid"
        /\ result[1].str = time_string
        /\ result[1].count = Cardinality(SepAt)

\* "1:2:3:4" has raised, with a count of 3.
C2_Witness ==
    /\ time_string = <<"1", ":", "2", ":", "3", ":", "4">>
    /\ sep = ":"
    /\ result # None
    /\ ~result[1].ok
    /\ result[1].count = 3

\* The number of tracks of the album built.
NumTracks == Len(A.tracks)

\* The name claimed for the file of track k: "<k>. <title>.mp3".
ClaimedName(k) ==
    DecStr(k) \o <<".", " ">> \o A.tracks[k].title \o <<".", "m", "p", "3">>

\* The path split_mp3 is to write the file of track k to: the output path, a
\* backslash, and the name.
WrittenPath(k) == OutputPath \o <<"\\">> \o ClaimedName(k)

\* The part of the source claimed for track k: from its start time to its
\* end time, or to the end of the source for the last track.
ClaimedAudio(k) ==
    [from |-> Min(A.tracks[k].start_time, source_len),
     to   |-> IF k < NumTracks THEN Min(A.tracks[k].end_time[1], source_len)
              ELSE source_len]

\* The printed lines of one kind, in the order printed.
IsSplitLine(line) == line.kind = "SPLIT"

IsTagLine(line) == line.kind \in {"EDITING META DATA", "DONE"}

SplitLines == SelectSeq(stdout, IsSplitLine)

\* The files the run has written tags to.
TaggedPaths == {p \in DOMAIN disk : disk[p].tags.TALB = AlbumName}

\* The files that were in the output directory before the run.
OldPaths == {OldPath(platform, OutputPath, names) : names \in UNION OldListings}

\* C3: once the Album is built, the end time of every track but the last is
\* the start time of the track after it and the end time of the last track
\* is None; and no later step of the run changes the tracks.
C3_EndTimes ==
    /\ [](album # None =>
            /\ \A k \in 1..(NumTracks - 1) :
                  A.tracks[k].end_time = <<A.tracks[k + 1].start_time>>
            /\ NumTracks >= 1 => A.tracks[NumTracks].end_time = None)
    /\ [][album # None => album' = album]_vars

\* The three tracks of "00:00 A", "00:30 B", "01:15 C" ended 30000, 75000
\* and None, and still do when the run is over.
C3_Witness ==
    /\ pc = "done"
    /\ NumTracks = 3
    /\ A.tracks[1].start_time = 0
    /\ A.tracks[1].end_time = <<30000>>
    /\ A.tracks[2].end_time = <<75000>>
    /\ A.tracks[3].end_time = None

\* A line as Album.__init__ hands it to Track: stripped.
HasBlank(data) == \E k \in 1..Len(data) : data[k] = " "

Malformed(line) ==
    LET data == PyStrip(line)
    IN  \/ data # <<>> /\ ~HasBlank(data)
        \/ ~time_to_ms(PySliceTo(data, PyFind(data, " ")), ":").ok

\* C4: a tracklist with a malformed line (a non-empty line with no blank, or
\* a line whose part before the first blank is no timestamp) makes the
\* construction fail: no album is built.
C4_MalformedLineRejected ==
    (pc # "main" /\ \E k \in 1..Len(tracklist) : Malformed(tracklist[k])) =>
        /\ pc = "error"
        /\ album = None

NonBlank(line) == PyStrip(line) # <<>>

WellFormed(line) ==
    LET data == PyStrip(line)
    IN  /\ HasBlank(data)
        /\ time_to_ms(PySliceTo(data, PyFind(data, " ")), ":").ok

\* C5: for a tracklist whose non-empty lines are well-formed (one of them at
\* least), the construction builds one Track per non-empty line, in file
\* order, numbered 1..n; a blank line gives no track and takes no number.
C5_OneTrackPerNonEmptyLine ==
    (/\ pc # "main"
     /\ \E k \in 1..Len(tracklist) : NonBlank(tracklist[k])
     /\ \A k \in 1..Len(tracklist) :
           NonBlank(tracklist[k]) => WellFormed(tracklist[k])) =>
        LET lines == SelectSeq(tracklist, NonBlank)
        IN  /\ album # None
            /\ NumTracks = Len(lines)
            /\ \A k \in 1..NumTracks :
                  LET data == PyStrip(lines[k])
                      cut  == PyFind(data, " ")
                  IN  /\ A.tracks[k].num = k
                      /\ A.tracks[k].title = PySliceFrom(data, cut + 1)
                      /\ A.tracks[k].start_time
                            = time_to_ms(PySliceTo(data, cut), ":").ms

\* C6: when split_mp3 has returned on an album of n >= 1 tracks (of a
\* tracklist of well-formed lines), it has
\* exported n files, in ascending track order; the file of track k is
\* "<k>. <title>.mp3" in the output directory and holds the source from the
\* start time of track k to its end time (to the end of the source for the
\* last track).
C6_SplitExports ==
    (pc = "split_done" /\ \A j \in 1..Len(tracklist) : WellFormed(tracklist[j])) =>
        /\ NumTracks >= 1
        /\ Len(SplitLines) = NumTracks
        /\ \A k \in 1..NumTracks :
              /\ SplitLines[k].n = k
              /\ SplitLines[k].text = ClaimedName(k)
              /\ ClaimedName(k) \in ListDir(OutputPath)
              /\ disk[OsPathJoin(platform, OutputPath, ClaimedName(k))].audio
                    = ClaimedAudio(k)
        /\ Cardinality(DOMAIN disk \ OldPaths) = NumTracks

\* The same where the backslash is the path separator (os.name "nt"), the
\* platform the export path of lines 119 and 128 is written for.
SplitExportsOnNt == platform = "nt" => C6_SplitExports

\* The durations of the exported files of tracks 1..k, summed.
RECURSIVE ExportedLen(_)
ExportedLen(k) ==
    IF k = 0 THEN 0
    ELSE ExportedLen(k - 1) + SliceLen(disk[ExportPath(A.output_path, A.tracks[k])].audio)

StartsAtZero == A.tracks[1].start_time = 0

StartsAscend ==
    \A k \in 1..(NumTracks - 1) : A.tracks[k].start_time <= A.tracks[k + 1].start_time

AllWellFormed == \A k \in 1..Len(tracklist) : WellFormed(tracklist[k])

\* C7 as claimed: for every album (here: of a tracklist of well-formed
\* lines), the durations of the exported files sum to the duration of the
\* source.
C7_SumIsSourceLen ==
    (pc = "split_done" /\ AllWellFormed) => ExportedLen(NumTracks) = source_len

\* C7 as amended: they do when the first track starts at 0 and no track
\* starts before the track it follows.
C7_SumIsSourceLenOrdered ==
    (pc = "split_done" /\ StartsAtZero /\ StartsAscend) =>
        ExportedLen(NumTracks) = source_len

\* Three tracks from 0 in ascending order, the last one starting after the
\* end of a 60000 ms source: the slices still sum to 60000.
C7_Witness ==
    /\ pc = "split_done"
    /\ NumTracks = 3
    /\ StartsAtZero
    /\ StartsAscend
    /\ A.tracks[3].start_time > source_len
    /\ source_len = 60000
    /\ ExportedLen(3) = 60000

\* The mp3 files of the output directory in track-number order.
Mp3Sorted ==
    CHOOSE sorted \in SortedByTrackNum({f \in ListDir(OutputPath) : IsMp3(f)}) : TRUE

\* C8: after edit_album_meta (where the backslash is the path separator, on
\* the album of a tracklist of well-formed lines), the mp3 files of the output directory, taken
\* in track-number order and paired by position with the album's tracks,
\* each carry the title of the paired track, the album's artist and name, and
\* the paired track's number.
C8_TagsMatchPairedTrack ==
    (pc = "done" /\ platform = "nt" /\ AllWellFormed) =>
        \A k \in 1..Min(Len(Mp3Sorted), NumTracks) :
            LET tags == disk[OsPathJoin(platform, OutputPath, Mp3Sorted[k])].tags
            IN  /\ tags.TIT2 = A.tracks[k].title
                /\ tags.TPE1 = Artist
                /\ tags.TALB = AlbumName
                /\ tags.TRCK = DecStr(A.tracks[k].num)

\* C9: a file is exported only once the Album is built with its end times;
\* the file of track k+1 is exported only after the file of track k; nothing
\* of the tagging pass happens before all n files are exported, and no export
\* follows it.
C9_PipelineOrder ==
    /\ (Len(SplitLines) > 0 \/ DOMAIN disk \ OldPaths # {}) =>
          /\ album # None
          /\ \A k \in 1..(NumTracks - 1) :
                A.tracks[k].end_time = <<A.tracks[k + 1].start_time>>
    /\ album # None =>
          /\ \A k \in 1..(NumTracks - 1) :
                WrittenPath(k + 1) \in DOMAIN disk => WrittenPath(k) \in DOMAIN disk
          /\ \A k \in 1..Len(SplitLines) : SplitLines[k].n = k
          /\ (TaggedPaths # {} \/ \E p \in 1..Len(stdout) : IsTagLine(stdout[p])) =>
                /\ Len(SplitLines) = NumTracks
                /\ \A k \in 1..NumTracks : WrittenPath(k) \in DOMAIN disk
    /\ album = None => TaggedPaths = {}
    /\ \A p, q \in 1..Len(stdout) :
          (p < q /\ IsTagLine(stdout[p])) => ~IsSplitLine(stdout[q])

\* A run over three tracks has ended with all three files tagged.
C9_Witness ==
    /\ pc = "done"
    /\ NumTracks = 3
    /\ Len(SplitLines) = 3
    /\ Cardinality(TaggedPaths) = 3

\* C10: when the export of track k raises, the run is over: the files of
\* tracks 1..k-1 are on disk as exported, no file of a track from k on is,
\* nothing is tagged, and no step follows (no retry).
C10_ExportFailureEndsRun ==
    /\ [](error = "ExportError" =>
            /\ pc = "error"
            /\ \A k \in 1..(pos - 1) :
                  /\ WrittenPath(k) \in DOMAIN disk
                  /\ disk[WrittenPath(k)] = [audio |-> ClaimedAudio(k), tags |-> NoTags]
            /\ \A k \in pos..NumTracks : WrittenPath(k) \notin DOMAIN disk
            /\ Len(SplitLines) = pos - 1
            /\ TaggedPaths = {}
            /\ \A p \in 1..Len(stdout) : ~IsTagLine(stdout[p]))
    /\ [][pc # "error"]_vars

\* The export of the second of three tracks has raised; the first file is
\* on disk.
C10_Witness ==
    /\ pc = "error"
    /\ error = "ExportError"
    /\ NumTracks = 3
    /\ pos = 2
    /\ WrittenPath(1) \in DOMAIN disk

====
